---- MODULE Spec2Model ----
(***************************************************************************)
(* zeroCam: arbitration of the single camera between capture jobs, the     *)
(* streaming worker and the focus-aid preview (src/zeroCam.py,             *)
(* src/cameras.py, src/settingsManager.py,                                 *)
(* src/lib/components/scheduler_manager.py), and the exposure bracketing   *)
(* search of PiCameraDevice.takePicture (src/cameras.py).                  *)
(*                                                                         *)
(* Spec       the threads of the application sharing one camera.  Each     *)
(*            action is one step of one thread between two accesses to     *)
(*            shared state.  takePicture is followed through its camera    *)
(*            start/stop and its outcome; the bracketing loop inside it is *)
(*            the subject of SearchSpec.                                   *)
(* SearchSpec one thread running takePicture's bracketing loop attempt by  *)
(*            attempt against a scene of brightness values.                *)
(***************************************************************************)
EXTENDS Integers, Sequences, FiniteSets, TLC

VARIABLES
    \* ---- ZeroCamApp (src/zeroCam.py:53-63)
    shot_counter,          \* self.shot_counter
    streaming_was_active,  \* self.streaming_was_active
    shutdown_flag,         \* self.shutdown_flag (Event)
    shutdown_lock,         \* self.shutdown_lock held?
    capture_lock,          \* holder of self.capture_lock, or None
    capture_active,        \* self.capture_active (Event)
    deviceStatus,          \* diagnostic_data["deviceStatus"], last published
    reset_interval,        \* cameraParameters.hardResetInterval
    exited,                \* os._exit has run: the process is gone
    \* ---- threads running capture_job and the web handlers
    pc,                    \* position of each thread
    ret,                   \* where the thread continues after streamStop
    joining,               \* the worker thread streamStop's join() waits for
    day_period,            \* capture_job's local day_period
    frame,                 \* capture_job's local: image_buffer is not None
    \* ---- PiCameraDevice (src/cameras.py:84-96, 315-479)
    running,               \* self.running
    started,               \* self.camera.started (Picamera2)
    wk,                    \* position of the streaming worker threads:
                           \* the one self.streamThread names, and an
                           \* earlier one that is still alive
    \* ---- SettingsManager (src/settingsManager.py:38, 300-336)
    focus_aid_running,     \* self.focus_aid_running
    gen,                   \* position of the _generate_focus_frames generator
    \* ---- exposure state (src/cameras.py:84-111)
    last_known_exposure_index, \* self.last_known_exposure_index
    capture_info,          \* the JSON object in the file .capture_info
    \* ---- takePicture's bracketing loop (src/cameras.py:185-257)
    spc,                   \* position inside takePicture
    scene,                 \* per index, the brightness values the sensor
                           \* can yield there; none: an empty buffer
    target,                \* <<BRIGHTNESS_TARGET_MIN, BRIGHTNESS_TARGET_MAX>>
    shutter_idx,           \* shutter_idx
    attempt,               \* iterations of the for loop used so far
    exp_results,           \* exp_results: index -> brightness of its frame
    order,                 \* insertion order of exp_results' keys
    start_idx,             \* the index this search started from
    result,                \* what takePicture returned: <<index of the
                           \* frame>>, or <<>> for (None, {})
    \* ---- capture_job's post-processing (src/zeroCam.py:154-174)
    post_stage,            \* the step that comes next
    image_buffer,          \* capture_job's local image_buffer: the steps
                           \* that made the buffer it names, in order
    post_log,              \* the steps run so far, each with the buffer
                           \* it was given and the buffer it returned
    post_opts              \* the optional steps the configuration enables

appVars    == <<shot_counter, streaming_was_active, shutdown_flag, shutdown_lock,
                capture_lock, capture_active, deviceStatus, reset_interval, exited>>
threadVars == <<pc, ret, joining, day_period, frame>>
camVars    == <<running, started, wk>>
focusVars  == <<focus_aid_running, gen>>
expVars    == <<last_known_exposure_index, capture_info>>
searchVars == <<spc, scene, target, shutter_idx, attempt, exp_results, order,
                start_idx, result>>
postVars   == <<post_stage, image_buffer, post_log, post_opts>>
coordVars  == <<appVars, threadVars, camVars, focusVars>>
vars       == <<appVars, threadVars, camVars, focusVars, expVars, searchVars,
                postVars>>

None == "none"

(***************************************************************************)
(* Sizes                                                                   *)
(***************************************************************************)
TableLen     == 16   \* len(SHUTTER_SPEEDS_SECONDS)
MidIdx       == 8    \* the start index when none is known
max_attempts == 30   \* max_attempts
MaxShots     == 2    \* no capture job starts once shot_counter reached this
Window       == 1    \* indices this close to the start yield any brightness
MaxEmpty     == 1    \* empty frames such an index may yield in one search

Idx            == 0 .. (TableLen - 1)
Jobs           == {"sched", "manual"}  \* SchedulerThread / FirstCaptureThread,
                                       \* ManualCaptureThread or web take_photo
Web            == "web"                \* a request thread of the settings manager
Threads        == Jobs \cup {Web}
\* YouTubeStreamThread objects: the thread self.streamThread refers to (the
\* last one streamStart created) and one created before it
streamThread   == "latest"
Workers        == {streamThread, "earlier"}
\* get_day_period's results; dawn and dusk take the same branches as night
DayPeriods     == {"day", "night", "unknown"}
ResetIntervals == {0, MaxShots}        \* hardResetInterval: off (default), on
\* indices the bracketing loop of a coordinated capture may end on
StillIdx       == {MidIdx - 1, MidIdx}

\* mean grey levels of a frame, and the default target band
\* [BRIGHTNESS_TARGET_MIN, BRIGHTNESS_TARGET_MAX] among them: 20 and 30 lie
\* below the band, 65 and 75 above it; 30 and 65 are equally far from the
\* middle of the band, and so are 20 and 75
Levels         == {20, 30, 50, 65, 75}
BandMin        == 40
BandMax        == 55
\* values the capture_idx field of .capture_info can hold when the camera
\* object is built: an index of the table, one below, one above
StoredIdx      == Idx \cup {-1, TableLen}

\* the file .capture_info: a JSON object, with or without the field
\* capture_idx
FieldName      == "capture_idx"
NoFields       == [k \in {} |-> 0]
FileWith(i)    == [k \in {FieldName} |-> i]

\* a constructor that ignores the file
ReadIndexFresh(file) == 0

\* _init_capture_index: json.load, then .get('capture_idx', 0)
ReadIndex(file) ==
    IF FieldName \in DOMAIN file THEN file[FieldName] ELSE 0

\* _store_capture_index: capture_info['capture_idx'] = i, then json.dump
WithIndex(file, i) ==
    [k \in DOMAIN file \cup {FieldName} |->
        IF k = FieldName THEN i ELSE file[k]]

Alive == ~exited

(***************************************************************************)
(* Initial state: ZeroCamApp.__init__, PiCameraDevice.__init__,            *)
(* SettingsManager.__init__; no thread has run yet.                        *)
(***************************************************************************)
InitApp ==
    /\ shot_counter = 0
    /\ streaming_was_active = FALSE
    /\ shutdown_flag = FALSE
    /\ shutdown_lock = FALSE
    /\ capture_lock = None
    /\ capture_active = TRUE
    /\ deviceStatus = "Starting"
    /\ exited = FALSE
    /\ pc = [t \in Threads |-> "idle"]
    /\ ret = [t \in Threads |-> "idle"]
    /\ joining = [t \in Threads |-> None]
    /\ day_period = [j \in Jobs |-> None]
    /\ frame = [j \in Jobs |-> FALSE]

InitCamera ==
    /\ running = FALSE
    /\ started = FALSE
    /\ wk = [w \in Workers |-> "dead"]

InitFocus ==
    /\ focus_aid_running = FALSE
    /\ gen = "idle"

\* no post-processing under way
InitPostIdle ==
    /\ post_stage = "idle"
    /\ image_buffer = <<>>
    /\ post_log = <<>>
    /\ post_opts = {}

InitSearchIdle ==
    /\ spc = "idle"
    /\ scene = [i \in Idx |-> Levels]
    /\ target = <<BandMin, BandMax>>
    /\ shutter_idx = MidIdx
    /\ attempt = 0
    /\ exp_results = <<>>
    /\ order = <<>>
    /\ start_idx = MidIdx
    /\ result = <<>>

Init ==
    /\ InitApp /\ InitCamera /\ InitFocus /\ InitSearchIdle /\ InitPostIdle
    /\ reset_interval \in ResetIntervals
    /\ capture_info \in {FileWith(i) : i \in StillIdx}
    /\ last_known_exposure_index = ReadIndex(capture_info)

(***************************************************************************)
(* Helpers shared by the threads                                           *)
(***************************************************************************)
Goto(t, l) == pc' = [pc EXCEPT ![t] = l]

ClearLocals(j) ==
    /\ day_period' = [day_period EXCEPT ![j] = None]
    /\ frame' = [frame EXCEPT ![j] = FALSE]

\* a with statement that does not wait for the lock
LockFreeAlways == TRUE

\* `with self.capture_lock:` may be entered
LockFree == capture_lock = None

\* a with block that keeps its lock when it is left
ReleaseKept == UNCHANGED capture_lock

\* leaving the with block, by return or by exception
Release == capture_lock' = None

\* an exception leaves capture_job: the with block releases the lock; under
\* _safe_capture_job the except clause runs, otherwise the thread ends
Raise(j) ==
    /\ Release
    /\ Goto(j, IF j = "sched" THEN "crashed" ELSE "idle")
    /\ ClearLocals(j)
    /\ UNCHANGED <<ret, joining>>

\* streamStart can create its thread: the model follows the thread
\* self.streamThread names and one earlier thread
CanStreamStart == running \/ wk[streamThread] = "dead" \/ wk["earlier"] = "dead"

\* a thread object that has ended and that no attribute names any more
Gone == "gone"

\* PiCameraDevice.streamStart: the new thread becomes self.streamThread; the
\* thread it named before, if alive, lives on as the earlier one.  A join()
\* in progress keeps waiting for the thread object it was called on.
streamStart ==
    IF running
    THEN UNCHANGED <<wk, joining>>
    ELSE /\ wk' = [wk EXCEPT ![streamThread] = "new",
                             !["earlier"] = IF wk[streamThread] = "dead"
                                            THEN wk["earlier"]
                                            ELSE wk[streamThread]]
         /\ joining' = [t \in Threads |->
                          IF joining[t] = None THEN None
                          ELSE IF wk[streamThread] = "dead"
                          THEN (IF joining[t] = streamThread
                                THEN Gone ELSE joining[t])
                          ELSE (IF joining[t] = streamThread
                                THEN "earlier" ELSE Gone)]

\* `if camera.running: camera.streamStop()` up to `self.running = False`;
\* the caller then waits in "ss_join" and continues at l
streamStopBegin(t, l) ==
    IF running
    THEN /\ running' = FALSE
         /\ Goto(t, "ss_join")
         /\ ret' = [ret EXCEPT ![t] = l]
         /\ joining' = [joining EXCEPT ![t] = streamThread]
    ELSE /\ Goto(t, l)
         /\ UNCHANGED <<running, ret, joining>>

\* streamThread.join() can return: the thread has ended
Joined(t) == IF joining[t] = Gone THEN TRUE ELSE wk[joining[t]] = "dead"

\* streamStop: streamThread.join() returns, then camera.stop()
StreamStopJoin(t) ==
    /\ Alive
    /\ pc[t] = "ss_join"
    /\ Joined(t)
    /\ started' = FALSE
    /\ Goto(t, ret[t])
    /\ ret' = [ret EXCEPT ![t] = "idle"]
    /\ joining' = [joining EXCEPT ![t] = None]
    /\ UNCHANGED <<appVars, day_period, frame, running, wk,
                   focusVars, expVars, searchVars, postVars>>

(***************************************************************************)
(* capture_job (src/zeroCam.py:122-184), run by the scheduler through      *)
(* _safe_capture_job ("sched") or directly in a thread of its own          *)
(* ("manual").                                                             *)
(***************************************************************************)
\* the scheduler loop runs pending jobs only while capture is active and no
\* shutdown was flagged; a manual trigger starts a thread at any time
JobBegin(j) ==
    /\ Alive
    /\ pc[j] = "idle"
    /\ j = "sched" => (capture_active /\ ~shutdown_flag)
    /\ Goto(j, "acquire")
    /\ UNCHANGED <<appVars, ret, joining, day_period, frame, camVars, focusVars,
                   expVars, searchVars, postVars>>

\* with self.capture_lock: (blocking acquire)
JobAcquire(j) ==
    /\ Alive
    /\ pc[j] = "acquire"
    /\ shot_counter < MaxShots
    /\ LockFree
    /\ capture_lock' = j
    /\ Goto(j, "check")
    /\ UNCHANGED <<shot_counter, streaming_was_active, shutdown_flag,
                   shutdown_lock, capture_active, deviceStatus, reset_interval,
                   exited, ret, joining, day_period, frame, camVars, focusVars,
                   expVars, searchVars, postVars>>

\* a pause check that never sees the pause
SeesActiveAlways == TRUE

\* the pause check sees capture as allowed
SeesActive == capture_active

\* lines 125-132: pause check; load_config, publish "Capturing Image",
\* get_day_period
JobCheck(j) ==
    /\ Alive
    /\ pc[j] = "check"
    /\ IF ~SeesActive
       THEN /\ Release
            /\ Goto(j, "idle")
            /\ UNCHANGED <<deviceStatus, day_period>>
       ELSE /\ \E dp \in DayPeriods :
                 day_period' = [day_period EXCEPT ![j] = dp]
            /\ deviceStatus' = "Capturing Image"
            /\ Goto(j, "period")
            /\ UNCHANGED capture_lock
    /\ UNCHANGED <<shot_counter, streaming_was_active, shutdown_flag,
                   shutdown_lock, capture_active, reset_interval, exited,
                   ret, joining, frame, camVars, focusVars, expVars, searchVars, postVars>>

\* a job that gives up on no day period
PeriodUnknownNever(dp) == FALSE

\* the job gives up on this day period
PeriodUnknown(dp) == dp = "unknown"

\* lines 133-141: unknown day period returns; otherwise stop a running stream
JobPeriod(j) ==
    /\ Alive
    /\ pc[j] = "period"
    /\ IF PeriodUnknown(day_period[j])
       THEN /\ Release
            /\ Goto(j, "idle")
            /\ ClearLocals(j)
            /\ UNCHANGED <<running, ret, joining>>
       ELSE /\ streamStopBegin(j, "take_picture")
            /\ UNCHANGED <<capture_lock, day_period, frame>>
    /\ UNCHANGED <<shot_counter, streaming_was_active, shutdown_flag,
                   shutdown_lock, capture_active, deviceStatus, reset_interval,
                   exited, started, wk, focusVars, expVars,
                   searchVars, postVars>>

\* takePicture, lines 141-166 / 196-216: camera.configure raises on a
\* started camera (Picamera2 refuses to configure a running camera);
\* otherwise set_controls and camera.start()
TakePictureStart(j) ==
    /\ Alive
    /\ pc[j] = "take_picture"
    /\ IF started
       THEN Goto(j, "tp_except")
       ELSE Goto(j, "tp_capture")
    /\ started' = TRUE
    /\ UNCHANGED <<appVars, ret, joining, day_period, frame, running, wk,
                   focusVars, expVars, searchVars, postVars>>

\* a takePicture that returns with the camera as it is
StartedAtReturnKept == started

\* camera.started when takePicture returns: the bracketing loop stops the
\* camera after each capture (line 223), the except clause and the finally
\* clause stop a started camera (lines 261-262, 266-267)
StartedAtReturn == FALSE

\* takePicture, lines 259-263: the except clause stops the camera and
\* returns (None, {})
TakePictureExcept(j) ==
    /\ Alive
    /\ pc[j] = "tp_except"
    /\ started' = StartedAtReturn
    /\ frame' = [frame EXCEPT ![j] = FALSE]
    /\ Goto(j, "captured")
    /\ UNCHANGED <<appVars, ret, joining, day_period, running, wk,
                   focusVars, expVars, searchVars, postVars>>

\* a takePicture that runs the exposure search for every day period
BracketingAlways(dp) == TRUE

\* line 148: the day branch uses auto exposure, every other day period the
\* exposure search
Bracketing(dp) == dp # "day"

\* takePicture, lines 170-177 / 201-270: the capture(s) and the return, the
\* camera stopped by the loop or by the finally clause.  A bracketing search
\* that returns a frame stores the index it ends on.
TakePictureCapture(j) ==
    /\ Alive
    /\ pc[j] = "tp_capture"
    /\ started' = StartedAtReturn
    /\ \E got \in BOOLEAN :
         /\ frame' = [frame EXCEPT ![j] = got]
         /\ IF got /\ Bracketing(day_period[j])
            THEN \E i \in StillIdx :
                    /\ last_known_exposure_index' = i
                    /\ capture_info' = WithIndex(capture_info, i)
            ELSE UNCHANGED expVars
    /\ Goto(j, "captured")
    /\ UNCHANGED <<appVars, ret, joining, day_period, running, wk,
                   focusVars, searchVars, postVars>>

\* what the post-processing steps of lines 154-181 can do: all run, or
\* saveImage raises (crop, apply_masks, annotate, add_overlays, upload and
\* the archive catch their own errors; unsharpMask, off by default, raises
\* like saveImage)
PostOutcomes == {"ok", "save_raises"}

GotFrameAlways(j) == TRUE

\* line 145: takePicture returned a frame
GotFrame(j) == frame[j]

\* lines 145-181
JobCaptured(j) ==
    /\ Alive
    /\ pc[j] = "captured"
    /\ IF ~GotFrame(j)
       THEN /\ deviceStatus' = "Error: Capture Failed"
            /\ Goto(j, "restart_stream")
            /\ UNCHANGED <<shot_counter, capture_lock, day_period, frame, ret,
                           joining>>
       ELSE /\ shot_counter' = shot_counter + 1
            /\ \E post \in PostOutcomes :
                 \/ /\ post = "ok"
                    /\ deviceStatus' = "Idle"
                    /\ Goto(j, "hard_reset")
                    /\ UNCHANGED <<capture_lock, day_period, frame, ret, joining>>
                 \/ /\ post = "save_raises"
                    /\ deviceStatus' = "Uploading Image"
                    /\ Raise(j)
    /\ UNCHANGED <<streaming_was_active, shutdown_flag, shutdown_lock,
                   capture_active, reset_interval, exited, camVars, focusVars,
                   expVars, searchVars, postVars>>

ResetDueNever == FALSE

\* _check_for_hard_reset, line 220
ResetDue == reset_interval > 0 /\ shot_counter >= reset_interval

\* _check_for_hard_reset, and hard_reset_camera up to its streamStop
JobHardResetCheck(j) ==
    /\ Alive
    /\ pc[j] = "hard_reset"
    /\ IF ResetDue
       THEN streamStopBegin(j, "hr_reinit")
       ELSE /\ Goto(j, "restart_stream")
            /\ UNCHANGED <<running, ret, joining>>
    /\ UNCHANGED <<appVars, day_period, frame, started, wk,
                   focusVars, expVars, searchVars, postVars>>

\* hard_reset_camera, lines 238-250: close the camera and build a new
\* camera object (ComponentManager._init_camera exits the process when the
\* constructor fails); an exception before that calls shutdown()
HardResetReinit(j) ==
    /\ Alive
    /\ pc[j] = "hr_reinit"
    /\ \E out \in {"ok", "close_raises", "init_fails"} :
         \/ /\ out = "ok"
            /\ running' = FALSE
            /\ started' = FALSE
            /\ wk' = [w \in Workers |-> "dead"]
            /\ last_known_exposure_index' = ReadIndex(capture_info)
            /\ shot_counter' = 0
            /\ Goto(j, "restart_stream")
            /\ UNCHANGED exited
         \/ /\ out = "close_raises"
            /\ Goto(j, "hr_shutdown")
            /\ UNCHANGED <<camVars, last_known_exposure_index, shot_counter,
                           exited>>
         \/ /\ out = "init_fails"
            /\ exited' = TRUE
            /\ UNCHANGED <<pc, camVars, last_known_exposure_index,
                           shot_counter>>
    /\ UNCHANGED <<streaming_was_active, shutdown_flag, shutdown_lock,
                   capture_lock, capture_active, deviceStatus, reset_interval,
                   ret, joining, day_period, frame, focusVars, capture_info,
                   searchVars, postVars>>

\* _restart_stream_if_enabled, then the end of the with block
JobRestartStream(j) ==
    /\ Alive
    /\ pc[j] = "restart_stream"
    /\ CanStreamStart
    /\ streamStart
    /\ Release
    /\ Goto(j, "idle")
    /\ ClearLocals(j)
    /\ UNCHANGED <<shot_counter, streaming_was_active, shutdown_flag,
                   shutdown_lock, capture_active, deviceStatus, reset_interval,
                   exited, ret, running, started, focusVars, expVars,
                   searchVars, postVars>>

(***************************************************************************)
(* SchedulerManager._safe_capture_job's except clause and                  *)
(* ZeroCamApp.shutdown.  shutdown is entered at "shutdown" from the except *)
(* clause and at "hr_shutdown" from hard_reset_camera, inside capture_job. *)
(***************************************************************************)
SafeCaptureJobCrash(j) ==
    /\ Alive
    /\ pc[j] = "crashed"
    /\ deviceStatus' = "Error: Capture Job CRASHED"
    /\ Goto(j, "shutdown")
    /\ UNCHANGED <<shot_counter, streaming_was_active, shutdown_flag,
                   shutdown_lock, capture_lock, capture_active, reset_interval,
                   exited, ret, joining, day_period, frame, camVars, focusVars,
                   expVars, searchVars, postVars>>

\* a shutdown_lock that every caller acquires
ShutdownInProgressNever == FALSE

\* line 272: shutdown_lock.acquire(blocking=False) fails
ShutdownInProgress == shutdown_lock

\* shutdown, lines 272-281: shutdown_lock.acquire(blocking=False), a second
\* caller returns; shutdown_flag.set(); a running stream is stopped first,
\* otherwise the process exits (lines 283-286)
ShutdownAcquire(t) ==
    /\ Alive
    /\ pc[t] \in {"shutdown", "hr_shutdown"}
    /\ IF ShutdownInProgress
       THEN /\ Goto(t, IF pc[t] = "shutdown" THEN "idle" ELSE "restart_stream")
            /\ UNCHANGED <<shutdown_lock, shutdown_flag, running, ret, joining, exited>>
       ELSE /\ shutdown_lock' = TRUE
            /\ shutdown_flag' = TRUE
            /\ IF running
               THEN /\ streamStopBegin(t, IF pc[t] = "shutdown"
                                          THEN "sd_exit" ELSE "hr_sd_exit")
                    /\ UNCHANGED exited
               ELSE /\ exited' = TRUE
                    /\ UNCHANGED <<pc, running, ret, joining>>
    /\ UNCHANGED <<shot_counter, streaming_was_active, capture_lock,
                   capture_active, deviceStatus, reset_interval, day_period,
                   frame, started, wk, focusVars, expVars,
                   searchVars, postVars>>

\* mqtt_manager.disconnect(); os._exit(1)
ShutdownExit(t) ==
    /\ Alive
    /\ pc[t] \in {"sd_exit", "hr_sd_exit"}
    /\ exited' = TRUE
    /\ UNCHANGED <<shot_counter, streaming_was_active, shutdown_flag,
                   shutdown_lock, capture_lock, capture_active, deviceStatus,
                   reset_interval, threadVars, camVars, focusVars, expVars,
                   searchVars, postVars>>

(***************************************************************************)
(* The streaming worker, PiCameraDevice.streamNow (src/cameras.py:323-459) *)
(***************************************************************************)
\* lines 327-392: with both streams disabled the worker clears running and
\* returns; otherwise camera.configure (raises on a started camera, which
\* ends the thread), set_controls, camera.start(), the warm-up and
\* self.running = True
WorkerRun(w) ==
    /\ Alive
    /\ wk[w] = "new"
    /\ \E enabled \in BOOLEAN :
         \/ /\ ~enabled
            /\ running' = FALSE
            /\ wk' = [wk EXCEPT ![w] = "dead"]
            /\ UNCHANGED started
         \/ /\ enabled
            /\ started
            /\ wk' = [wk EXCEPT ![w] = "dead"]
            /\ UNCHANGED <<running, started>>
         \/ /\ enabled
            /\ ~started
            /\ started' = TRUE
            /\ running' = TRUE
            /\ wk' = [wk EXCEPT ![w] = "loop"]
    /\ UNCHANGED <<appVars, threadVars, focusVars, expVars, searchVars, postVars>>

\* line 395: the loop sees running cleared, cleans up and the thread ends
WorkerLoopExit(w) ==
    /\ Alive
    /\ wk[w] = "loop"
    /\ ~running
    /\ wk' = [wk EXCEPT ![w] = "dead"]
    /\ UNCHANGED <<appVars, threadVars, running, started, focusVars, expVars, searchVars, postVars>>

\* lines 407-409, 427-429: a broken pipe or a streaming error breaks the
\* loop; running stays set
WorkerLoopBreak(w) ==
    /\ Alive
    /\ wk[w] = "loop"
    /\ running
    /\ wk' = [wk EXCEPT ![w] = "dead"]
    /\ UNCHANGED <<appVars, threadVars, running, started, focusVars, expVars, searchVars, postVars>>

(***************************************************************************)
(* Focus aid (src/settingsManager.py:281-336) and pause_capture /          *)
(* resume_capture (src/zeroCam.py:288-328), run by a web request thread.   *)
(***************************************************************************)
\* focus_aid_stream: the generator starts the camera (lines 310-311)
FocusStreamOpen ==
    /\ Alive
    /\ gen = "idle"
    /\ started' = TRUE
    /\ gen' = "loop"
    /\ UNCHANGED <<appVars, threadVars, running, wk,
                   focus_aid_running, expVars, searchVars, postVars>>

\* line 313: focus_aid_running is cleared; finally: camera.stop()
FocusStreamEnd ==
    /\ Alive
    /\ gen = "loop"
    /\ ~focus_aid_running
    /\ started' = FALSE
    /\ gen' = "idle"
    /\ UNCHANGED <<appVars, threadVars, running, wk,
                   focus_aid_running, expVars, searchVars, postVars>>

\* lines 330-335: an error in the frame loop (or the client going away)
\* breaks it; finally: camera.stop()
FocusStreamBreak ==
    /\ Alive
    /\ gen = "loop"
    /\ focus_aid_running
    /\ started' = FALSE
    /\ gen' = "idle"
    /\ UNCHANGED <<appVars, threadVars, running, wk,
                   focus_aid_running, expVars, searchVars, postVars>>

\* start_focus_aid -> pause_capture, lines 291-298: with no stream running
\* the handler runs through (line 285); otherwise up to self.running = False
StartFocusAid ==
    /\ Alive
    /\ pc[Web] = "idle"
    /\ capture_active' = FALSE
    /\ streaming_was_active' = running
    /\ IF running
       THEN /\ streamStopBegin(Web, "pause_done")
            /\ UNCHANGED focus_aid_running
       ELSE /\ focus_aid_running' = TRUE
            /\ UNCHANGED <<pc, ret, joining, running>>
    /\ UNCHANGED <<shot_counter, shutdown_flag, shutdown_lock, capture_lock,
                   deviceStatus, reset_interval, exited, day_period, frame,
                   started, wk, gen, expVars, searchVars, postVars>>

\* start_focus_aid, line 285, after pause_capture's streamStop
PauseDone ==
    /\ Alive
    /\ pc[Web] = "pause_done"
    /\ focus_aid_running' = TRUE
    /\ Goto(Web, "idle")
    /\ UNCHANGED <<appVars, ret, joining, day_period, frame, camVars, gen, expVars,
                   searchVars, postVars>>

WasStreamingAlways == TRUE

\* resume_capture, line 304: the flag pause_capture left
WasStreaming == streaming_was_active

\* stop_focus_aid, line 291, and resume_capture's test of
\* streaming_was_active (line 304); without it, line 328
StopFocusAid ==
    /\ Alive
    /\ pc[Web] = "idle"
    /\ focus_aid_running' = FALSE
    /\ IF WasStreaming
       THEN /\ Goto(Web, "resume_wait")
            /\ UNCHANGED capture_active
       ELSE /\ capture_active' = TRUE
            /\ UNCHANGED pc
    /\ UNCHANGED <<shot_counter, streaming_was_active, shutdown_flag,
                   shutdown_lock, capture_lock, deviceStatus, reset_interval,
                   exited, ret, joining, day_period, frame, camVars, gen, expVars,
                   searchVars, postVars>>

\* a resume_capture that leaves streaming_was_active set
ResumeStartKeepsFlag ==
    /\ Alive
    /\ pc[Web] = "resume_wait"
    /\ CanStreamStart
    /\ started' = FALSE
    /\ streamStart
    /\ Goto(Web, "resume_set")
    /\ UNCHANGED <<shot_counter, streaming_was_active, shutdown_flag,
                   shutdown_lock, capture_lock, capture_active, deviceStatus,
                   reset_interval, exited, ret, day_period, frame, running,
                   focusVars, expVars, searchVars, postVars>>

\* resume_capture, lines 308-326: the wait ends with the camera stopped, or
\* times out and the camera is force-stopped; then the stream is restarted
ResumeStart ==
    /\ Alive
    /\ pc[Web] = "resume_wait"
    /\ CanStreamStart
    /\ started' = FALSE
    /\ streamStart
    /\ streaming_was_active' = FALSE
    /\ Goto(Web, "resume_set")
    /\ UNCHANGED <<shot_counter, shutdown_flag, shutdown_lock, capture_lock,
                   capture_active, deviceStatus, reset_interval, exited, ret,
                   day_period, frame, running, focusVars, expVars,
                   searchVars, postVars>>

\* resume_capture, line 328
ResumeSet ==
    /\ Alive
    /\ pc[Web] = "resume_set"
    /\ capture_active' = TRUE
    /\ Goto(Web, "idle")
    /\ UNCHANGED <<shot_counter, streaming_was_active, shutdown_flag,
                   shutdown_lock, capture_lock, deviceStatus, reset_interval,
                   exited, ret, joining, day_period, frame, camVars, focusVars,
                   expVars, searchVars, postVars>>

(***************************************************************************)
(* The application                                                         *)
(***************************************************************************)
Next ==
    \/ \E j \in Jobs : JobBegin(j)
    \/ \E j \in Jobs : JobAcquire(j)
    \/ \E j \in Jobs : JobCheck(j)
    \/ \E j \in Jobs : JobPeriod(j)
    \/ \E j \in Jobs : TakePictureStart(j)
    \/ \E j \in Jobs : TakePictureExcept(j)
    \/ \E j \in Jobs : TakePictureCapture(j)
    \/ \E j \in Jobs : JobCaptured(j)
    \/ \E j \in Jobs : JobHardResetCheck(j)
    \/ \E j \in Jobs : HardResetReinit(j)
    \/ \E j \in Jobs : JobRestartStream(j)
    \/ \E j \in Jobs : SafeCaptureJobCrash(j)
    \/ \E t \in Threads : StreamStopJoin(t)
    \/ \E t \in Threads : ShutdownAcquire(t)
    \/ \E t \in Threads : ShutdownExit(t)
    \/ \E w \in Workers : WorkerRun(w)
    \/ \E w \in Workers : WorkerLoopExit(w)
    \/ \E w \in Workers : WorkerLoopBreak(w)
    \/ FocusStreamOpen
    \/ FocusStreamEnd
    \/ FocusStreamBreak
    \/ StartFocusAid
    \/ PauseDone
    \/ StopFocusAid
    \/ ResumeStart
    \/ ResumeSet

Spec == Init /\ [][Next]_vars

\* Scheduling: a thread that can take its next step eventually takes it.
\* Nothing is assumed of the steps driven from outside: triggers and web
\* requests (JobBegin, StartFocusAid, StopFocusAid, FocusStreamOpen) and
\* errors of the streams (WorkerLoopBreak, FocusStreamBreak).
ThreadStep(t) ==
    \/ StreamStopJoin(t)
    \/ ShutdownAcquire(t)
    \/ ShutdownExit(t)

JobStep(j) ==
    \/ JobAcquire(j)
    \/ JobCheck(j)
    \/ JobPeriod(j)
    \/ TakePictureStart(j)
    \/ TakePictureExcept(j)
    \/ TakePictureCapture(j)
    \/ JobCaptured(j)
    \/ JobHardResetCheck(j)
    \/ HardResetReinit(j)
    \/ JobRestartStream(j)
    \/ SafeCaptureJobCrash(j)

WebStep == PauseDone \/ ResumeStart \/ ResumeSet

WorkerStep(w) == WorkerRun(w) \/ WorkerLoopExit(w)

Fairness ==
    /\ \A t \in Threads : WF_vars(ThreadStep(t))
    /\ \A j \in Jobs : WF_vars(JobStep(j))
    /\ \A w \in Workers : WF_vars(WorkerStep(w))
    /\ WF_vars(WebStep)
    /\ WF_vars(FocusStreamEnd)

FairSpec == Spec /\ Fairness

\* the capture jobs that run next to the web requests: the scheduler's
WebJobs == {"sched"}

\* the application as configured by default: hardResetInterval is 0, so
\* no hard reset is made
WebInit ==
    /\ InitApp /\ InitCamera /\ InitFocus /\ InitSearchIdle /\ InitPostIdle
    /\ reset_interval = 0
    /\ capture_info = FileWith(MidIdx)
    /\ last_known_exposure_index = ReadIndex(capture_info)

\* the scheduler's capture job, the streaming workers, the focus aid and
\* the web requests
WebNext ==
    \/ \E j \in WebJobs : JobBegin(j)
    \/ \E j \in WebJobs : JobAcquire(j)
    \/ \E j \in WebJobs : JobCheck(j)
    \/ \E j \in WebJobs : JobPeriod(j)
    \/ \E j \in WebJobs : TakePictureStart(j)
    \/ \E j \in WebJobs : TakePictureExcept(j)
    \/ \E j \in WebJobs : TakePictureCapture(j)
    \/ \E j \in WebJobs : JobCaptured(j)
    \/ \E j \in WebJobs : JobHardResetCheck(j)
    \/ \E j \in WebJobs : JobRestartStream(j)
    \/ \E j \in WebJobs : SafeCaptureJobCrash(j)
    \/ \E t \in Threads : StreamStopJoin(t)
    \/ \E t \in Threads : ShutdownAcquire(t)
    \/ \E t \in Threads : ShutdownExit(t)
    \/ \E w \in Workers : WorkerRun(w)
    \/ \E w \in Workers : WorkerLoopExit(w)
    \/ \E w \in Workers : WorkerLoopBreak(w)
    \/ FocusStreamOpen
    \/ FocusStreamEnd
    \/ FocusStreamBreak
    \/ StartFocusAid
    \/ PauseDone
    \/ StopFocusAid
    \/ ResumeStart
    \/ ResumeSet

\* the request thread of a handler and the streaming workers keep running
WebFairSpec ==
    /\ WebInit /\ [][WebNext]_vars
    /\ WF_vars(WebStep) /\ \A w \in Workers : WF_vars(WorkerStep(w))

(***************************************************************************)
(* The bracketing search of PiCameraDevice.takePicture                     *)
(* (src/cameras.py:178-257), one attempt per step.                         *)
(***************************************************************************)
InBand(b) == target[1] <= b /\ b <= target[2]

\* abs(brightness - target_br) with target_br = (min + max) / 2, doubled
Dist(b) ==
    LET d == 2 * b - (target[1] + target[2])
    IN  IF d < 0 THEN -d ELSE d

\* a search that steps the wrong way
NextIdxReversed(idx, b) ==
    IF b < target[1] THEN idx - 1
    ELSE IF b > target[2] THEN idx + 1
    ELSE idx

\* a search that skips an index on its way up
NextIdxSkipping(idx, b) ==
    IF b < target[1] THEN idx + 2
    ELSE IF b > target[2] THEN idx - 1
    ELSE idx

\* lines 243-246: a longer exposure for a dark frame, a shorter one for a
\* bright frame
NextIdx(idx, b) ==
    IF b < target[1] THEN idx + 1
    ELSE IF b > target[2] THEN idx - 1
    ELSE idx

\* a fallback that takes the newest entry
NewestOf(res, ord) == ord[Len(ord)]

\* a fallback that breaks ties by the lowest index
LowestOf(res, ord) ==
    LET minimal == {i \in DOMAIN res :
                      \A k \in DOMAIN res : Dist(res[i]) <= Dist(res[k])}
    IN  CHOOSE i \in minimal : \A k \in minimal : i <= k

\* a fallback that takes the index the loop stopped at
StoppedAt(res, ord) == shutter_idx

\* line 252: min(exp_results.keys(), key=...) returns the first key, in
\* insertion order, whose distance to the target is minimal
BestOf(res, ord) ==
    LET minimal == {n \in 1 .. Len(ord) :
                      \A m \in 1 .. Len(ord) :
                         Dist(res[ord[n]]) <= Dist(res[ord[m]])}
        first   == CHOOSE n \in minimal : \A m \in minimal : n <= m
    IN  ord[first]

\* a monotone scene: below the band up to index a, in the band up to b,
\* above it from b on
MonoScene(a, b) ==
    [i \in Idx |-> IF i < a THEN {30} ELSE IF i < b THEN {50} ELSE {65}]

\* a scene around start index s: any brightness, or an empty frame, near
\* s, and one fixed outcome on either side
NearScene(s, lo, hi) ==
    [i \in Idx |-> IF i < s - Window THEN lo
                   ELSE IF i > s + Window THEN hi
                   ELSE Levels]

\* a sensor that yields empty buffers only
DeadScene == [i \in Idx |-> {}]

\* one brightness, or the empty buffer
FixedOutcomes == {{b} : b \in Levels} \cup {{}}

SearchInit ==
    /\ InitApp /\ InitCamera /\ InitFocus /\ InitPostIdle
    /\ reset_interval = 0
    /\ capture_info \in {FileWith(i) : i \in StoredIdx} \cup {NoFields}
    /\ last_known_exposure_index = ReadIndex(capture_info)
    /\ spc = "idle"
    /\ \/ \E a, b \in 0 .. TableLen : a <= b /\ scene = MonoScene(a, b)
       \/ \E lo, hi \in FixedOutcomes :
             scene = NearScene(ReadIndex(capture_info), lo, hi)
       \/ scene = DeadScene
    /\ target = <<BandMin, BandMax>>
    /\ shutter_idx = MidIdx
    /\ attempt = 0
    /\ exp_results = <<>>
    /\ order = <<>>
    /\ start_idx = MidIdx
    /\ result = <<>>

\* PiCameraDevice.__init__ once more, after a process restart or in a hard
\* reset: the index is read from the file again; the locals of the search
\* before are gone, result stays as the last value a caller got
CameraRebuilt ==
    /\ spc \notin {"idle", "loop"}
    /\ last_known_exposure_index' = ReadIndex(capture_info)
    /\ spc' = "idle"
    /\ shutter_idx' = MidIdx
    /\ start_idx' = MidIdx
    /\ attempt' = 0
    /\ exp_results' = <<>>
    /\ order' = <<>>
    /\ UNCHANGED <<coordVars, postVars, capture_info, scene, target, result>>

\* lines 185-199: start index (the stored one), exp_results = {}, the loop
\* is entered
SearchBegin ==
    /\ spc = "idle"
    /\ shutter_idx' = last_known_exposure_index
    /\ start_idx' = last_known_exposure_index
    /\ exp_results' = <<>>
    /\ order' = <<>>
    /\ attempt' = 0
    /\ spc' = "loop"
    /\ UNCHANGED <<coordVars, postVars, expVars, scene, target, result>>

\* a fallback that returns the best entry and stores nothing
FallbackNoStore(why) ==
    /\ spc' = why
    /\ result' = IF order = <<>> THEN <<>> ELSE <<BestOf(exp_results, order)>>
    /\ UNCHANGED <<coordVars, postVars, expVars, scene, target, shutter_idx, attempt,
                   exp_results, order, start_idx>>

\* a fallback without the guard of line 250: with nothing tried it stores
\* the default start index
FallbackStoreAlways(why) ==
    /\ spc' = why
    /\ result' = IF order = <<>> THEN <<>> ELSE <<BestOf(exp_results, order)>>
    /\ last_known_exposure_index' =
          IF order = <<>> THEN MidIdx ELSE BestOf(exp_results, order)
    /\ capture_info' =
          WithIndex(capture_info,
                    IF order = <<>> THEN MidIdx
                    ELSE BestOf(exp_results, order))
    /\ UNCHANGED <<coordVars, postVars, scene, target, shutter_idx, attempt,
                   exp_results, order, start_idx>>

\* lines 248-257: nothing tried returns (None, {}); otherwise the best entry
\* of exp_results is returned and its index stored
Fallback(why) ==
    /\ spc' = why
    /\ IF order = <<>>
       THEN /\ result' = <<>>
            /\ UNCHANGED expVars
       ELSE /\ result' = <<BestOf(exp_results, order)>>
            /\ last_known_exposure_index' = BestOf(exp_results, order)
            /\ capture_info' =
                    WithIndex(capture_info, BestOf(exp_results, order))
    /\ UNCHANGED <<coordVars, postVars, scene, target, shutter_idx, attempt,
                   exp_results, order, start_idx>>

AttemptsLeftAlways == TRUE

\* line 201: range(max_attempts) has a value left
AttemptsLeft == attempt < max_attempts

\* the loop body is entered once more and gets as far as the capture
CanCapture ==
    /\ spc = "loop"
    /\ AttemptsLeft
    /\ shutter_idx \in Idx
    /\ shutter_idx \notin DOMAIN exp_results

\* line 201: range(max_attempts) is used up
SearchExhausted ==
    /\ spc = "loop"
    /\ attempt = max_attempts
    /\ Fallback("stopped_attempts")

\* lines 202-204: the index has left the table
SearchOutOfRange ==
    /\ spc = "loop"
    /\ attempt < max_attempts
    /\ shutter_idx \notin Idx
    /\ Fallback("stopped_range")

\* lines 207-209: the index is already in exp_results
SearchRevisit ==
    /\ spc = "loop"
    /\ attempt < max_attempts
    /\ shutter_idx \in Idx
    /\ shutter_idx \in DOMAIN exp_results
    /\ Fallback("stopped_revisit")

\* an empty buffer that is logged like a frame, as a black one
SearchCaptureEmptyLogged ==
    /\ CanCapture
    /\ \/ scene[shutter_idx] = {}
       \/ scene[shutter_idx] = Levels /\ attempt - Len(order) < MaxEmpty
    /\ exp_results' = [i \in DOMAIN exp_results \cup {shutter_idx} |->
                          IF i = shutter_idx THEN 0 ELSE exp_results[i]]
    /\ order' = Append(order, shutter_idx)
    /\ attempt' = attempt + 1
    /\ UNCHANGED <<coordVars, postVars, expVars, spc, scene, target, shutter_idx,
                   start_idx, result>>

\* lines 214-227: the capture yields an empty buffer; continue
SearchCaptureEmpty ==
    /\ CanCapture
    /\ \/ scene[shutter_idx] = {}
       \/ scene[shutter_idx] = Levels /\ attempt - Len(order) < MaxEmpty
    /\ attempt' = attempt + 1
    /\ UNCHANGED <<coordVars, postVars, expVars, spc, scene, target, shutter_idx,
                   exp_results, order, start_idx, result>>

\* lines 214-246: the capture yields a frame of brightness b; it is logged;
\* in the band it is returned and its index stored, otherwise the index
\* moves
SearchCapture ==
    /\ CanCapture
    /\ \E b \in scene[shutter_idx] :
         /\ exp_results' = [i \in DOMAIN exp_results \cup {shutter_idx} |->
                               IF i = shutter_idx THEN b ELSE exp_results[i]]
         /\ order' = Append(order, shutter_idx)
         /\ attempt' = attempt + 1
         /\ IF InBand(b)
            THEN /\ last_known_exposure_index' = shutter_idx
                 /\ capture_info' = WithIndex(capture_info, shutter_idx)
                 /\ result' = <<shutter_idx>>
                 /\ spc' = "returned"
                 /\ UNCHANGED shutter_idx
            ELSE /\ shutter_idx' = NextIdx(shutter_idx, b)
                 /\ UNCHANGED <<expVars, result, spc>>
    /\ UNCHANGED <<coordVars, postVars, scene, target, start_idx>>

\* lines 259-263, SearchRaise and SearchExcept in one step: the camera
\* raises during an attempt; (None, {}) is returned, the frames logged so
\* far are dropped with the locals
SearchDeviceError ==
    /\ CanCapture
    /\ result' = <<>>
    /\ spc' = "failed"
    /\ shutter_idx' = MidIdx
    /\ start_idx' = MidIdx
    /\ attempt' = 0
    /\ exp_results' = <<>>
    /\ order' = <<>>
    /\ UNCHANGED <<coordVars, postVars, expVars, scene, target>>

\* lines 212-231 raise: set_controls, start, capture_file,
\* capture_metadata, stop or Image.open fails, with the camera started or
\* not; the except clause is entered
SearchRaise ==
    /\ CanCapture
    /\ started' \in BOOLEAN
    /\ spc' = "raised"
    /\ UNCHANGED <<appVars, threadVars, running, wk, focusVars, expVars,
                   scene, target, shutter_idx, attempt, exp_results, order,
                   start_idx, result, postVars>>

\* an except clause that falls back on the frames logged so far
SearchExceptFallback ==
    /\ spc = "raised"
    /\ started' = FALSE
    /\ spc' = "failed"
    /\ result' = IF order = <<>> THEN <<>> ELSE <<BestOf(exp_results, order)>>
    /\ UNCHANGED <<appVars, threadVars, running, wk, focusVars, expVars,
                   scene, target, shutter_idx, attempt, exp_results, order,
                   start_idx, postVars>>

\* lines 259-270: the except clause stops a started camera and returns
\* (None, {}); the finally clause finds the camera stopped
SearchExcept ==
    /\ spc = "raised"
    /\ started' = FALSE
    /\ spc' = "failed"
    /\ result' = <<>>
    /\ UNCHANGED <<appVars, threadVars, running, wk, focusVars, expVars,
                   scene, target, shutter_idx, attempt, exp_results, order,
                   start_idx, postVars>>

SearchNext ==
    \/ CameraRebuilt
    \/ SearchBegin
    \/ SearchExhausted
    \/ SearchOutOfRange
    \/ SearchRevisit
    \/ SearchCaptureEmpty
    \/ SearchCapture
    \/ SearchDeviceError

SearchSpec == SearchInit /\ [][SearchNext]_vars

\* one pass of takePicture's loop, or its exit, with a camera that works
LoopPass ==
    \/ SearchExhausted
    \/ SearchOutOfRange
    \/ SearchRevisit
    \/ SearchCaptureEmpty
    \/ SearchCapture

SearchOnceNext ==
    \/ SearchBegin
    \/ LoopPass
    \/ SearchRaise
    \/ SearchExcept

\* one call of takePicture on a camera object just built; the call keeps
\* running once it has entered its loop (a device error may or may not
\* happen)
SearchOnceSpec ==
    SearchInit /\ [][SearchOnceNext]_vars /\ WF_vars(LoopPass \/ SearchExcept)

(***************************************************************************)
(* The post-processing of capture_job (src/zeroCam.py:154-174) on its own. *)
(* A buffer is the sequence of the steps that made it from the frame       *)
(* takePicture returned, which is <<>>.                                    *)
(***************************************************************************)
\* cameraParameters.unsharpMask, crop.enabled, cameraParameters.archiveImages
PostOptions == {"unsharpMask", "crop", "archiveImages"}

\* the steps in the order of the source text
PostSteps ==
    <<"unsharp", "crop", "mask", "annotate", "overlay", "upload", "save",
      "archive">>

Logged(step, inp, out) ==
    post_log' = Append(post_log, [step |-> step, inp |-> inp, out |-> out])

\* `image_buffer = f(image_buffer)` for the helpers that catch their own
\* errors (crop, apply_masks, annotate, add_overlays): the buffer the step
\* made, or the one it was given when it fails or has nothing to do
ImageStep(step, next) ==
    /\ post_stage = step
    /\ \E out \in {Append(image_buffer, step), image_buffer} :
         /\ image_buffer' = out
         /\ Logged(step, image_buffer, out)
    /\ post_stage' = next
    /\ UNCHANGED <<coordVars, expVars, searchVars, post_opts>>

\* a step that is switched off
PostSkip(step, next) ==
    /\ post_stage = step
    /\ post_stage' = next
    /\ UNCHANGED <<coordVars, expVars, searchVars, image_buffer, post_log,
                   post_opts>>

\* a step that raises: the exception leaves capture_job
PostRaise(step) ==
    /\ post_stage = step
    /\ post_stage' = "raised"
    /\ UNCHANGED <<coordVars, expVars, searchVars, image_buffer, post_log,
                   post_opts>>

\* a step that is given the buffer and returns nothing
SinkStep(step, next) ==
    /\ post_stage = step
    /\ Logged(step, image_buffer, image_buffer)
    /\ post_stage' = next
    /\ UNCHANGED <<coordVars, expVars, searchVars, image_buffer, post_opts>>

PostInit ==
    /\ InitApp /\ InitCamera /\ InitFocus /\ InitSearchIdle
    /\ reset_interval = 0
    /\ capture_info \in {FileWith(i) : i \in StillIdx}
    /\ last_known_exposure_index = ReadIndex(capture_info)
    /\ post_stage = "unsharp"
    /\ image_buffer = <<>>
    /\ post_log = <<>>
    /\ post_opts \in SUBSET PostOptions

\* lines 154-156 and helpers.unsharpMask: the input image is saved again
\* into a new buffer, which is returned (the filtered image is dropped);
\* capture_job does not assign the result
PostUnsharpMask ==
    IF "unsharpMask" \in post_opts
    THEN \/ /\ post_stage = "unsharp"
            /\ Logged("unsharp", image_buffer, Append(image_buffer, "resaved"))
            /\ post_stage' = "crop"
            /\ UNCHANGED <<coordVars, expVars, searchVars, image_buffer,
                           post_opts>>
         \/ PostRaise("unsharp")
    ELSE PostSkip("unsharp", "crop")

\* lines 161-162
PostCrop ==
    IF "crop" \in post_opts
    THEN ImageStep("crop", "mask")
    ELSE PostSkip("crop", "mask")

\* lines 164-165: the privacy masker is always built
PostApplyMasks == ImageStep("mask", "annotate")

\* line 167
PostAnnotate == ImageStep("annotate", "overlay")

\* line 168
PostAddOverlays == ImageStep("overlay", "upload")

\* line 171: upload catches its own errors
PostUpload == SinkStep("upload", "save")

\* line 173: saveImage can raise
PostSaveImage ==
    \/ SinkStep("save", "archive")
    \/ PostRaise("save")

\* line 174: _archive_image_if_enabled catches its own errors
PostArchive ==
    IF "archiveImages" \in post_opts
    THEN SinkStep("archive", "done")
    ELSE PostSkip("archive", "done")

PostNext ==
    \/ PostUnsharpMask
    \/ PostCrop
    \/ PostApplyMasks
    \/ PostAnnotate
    \/ PostAddOverlays
    \/ PostUpload
    \/ PostSaveImage
    \/ PostArchive

PostSpec == PostInit /\ [][PostNext]_vars

(***************************************************************************)
(* Properties of the application (Spec)                                    *)
(***************************************************************************)
\* positions inside the `with self.capture_lock:` block of capture_job
BodyLabels == {"check", "period", "take_picture", "tp_except", "tp_capture",
               "captured", "hard_reset", "hr_reinit", "hr_shutdown",
               "hr_sd_exit", "restart_stream"}

InBody(j) ==
    \/ pc[j] \in BodyLabels
    \/ pc[j] = "ss_join" /\ ret[j] \in BodyLabels

\* takePicture is executing: it has touched the camera and not yet returned
InTakePicture(j) == pc[j] \in {"tp_except", "tp_capture"}

\* C1: at most one capture_job invocation is inside the lock-protected body
\* at any time; the one inside is the holder of the lock, so a second one
\* enters only after the first has released it.
C1_MutualExclusion ==
    /\ \A a, b \in Jobs : InBody(a) /\ InBody(b) => a = b
    /\ \A j \in Jobs : InBody(j) => capture_lock = j

\* a job is inside the body while the other one waits for the lock
C1_Witness ==
    \E a, b \in Jobs : a # b /\ InBody(a) /\ pc[b] = "acquire"

\* C2: while takePicture is executing inside a capture job, no streaming
\* worker is operating the camera.
C2_StillExcludesStreaming ==
    \A j \in Jobs : InTakePicture(j) => \A w \in Workers : wk[w] # "loop"

\* C3: while the focus-aid frame generator has the camera started, no
\* capture job is executing takePicture and no streaming worker is running.
C3_FocusExclusive ==
    gen = "loop" =>
        /\ \A j \in Jobs : ~InTakePicture(j)
        /\ \A w \in Workers : wk[w] # "loop"

\* C4: a capture_job that finds the active flag cleared after acquiring the
\* lock returns at once: no camera operation, no status published, shot
\* counter and exposure index (in memory and persisted) unchanged, lock
\* released.
C4_PausedNoOp ==
    [][\A j \in Jobs :
          (pc[j] = "check" /\ ~capture_active /\ pc'[j] # "check")
          => /\ pc'[j] = "idle"
             /\ capture_lock' = None
             /\ UNCHANGED <<camVars, deviceStatus, shot_counter, expVars>>
      ]_vars

\* a job holds the lock and is about to test the cleared flag, with a
\* worker thread alive
C4_Witness ==
    \E j \in Jobs :
        /\ pc[j] = "check" /\ ~capture_active /\ capture_lock = j
        /\ \E w \in Workers : wk[w] # "dead"

\* C5: when get_day_period returns "unknown" the job returns with no
\* capture: takePicture is not called, the stream is neither stopped nor
\* started, the shot counter is unchanged.
C5_UnknownAborts ==
    [][\A j \in Jobs :
          (pc[j] = "period" /\ day_period[j] = "unknown" /\ pc'[j] # "period")
          => /\ pc'[j] = "idle"
             /\ capture_lock' = None
             /\ UNCHANGED <<camVars, shot_counter, expVars>>
      ]_vars

\* a job got "unknown" while a stream is running
C5_Witness ==
    \E j \in Jobs :
        /\ pc[j] = "period" /\ day_period[j] = "unknown"
        /\ running /\ wk[streamThread] = "loop"

\* C6: every capture job that has reached the capture step leaves the body
\* through _restart_stream_if_enabled, whatever happened after the capture.
C6_AlwaysRestartsStream ==
    [][\A j \in Jobs :
          (capture_lock = j /\ capture_lock' # j
             /\ pc[j] \notin {"check", "period"})
          => pc[j] = "restart_stream"
      ]_vars

\* C7: a failing post-processing step is a per-job error: the job goes on
\* to the stream restart inside capture_job; no exception leaves capture_job
\* (which under _safe_capture_job means shutdown).
C7_PostFailureRecoverable ==
    [][\A j \in Jobs :
          (pc[j] = "captured" /\ frame[j]
             /\ pc'[j] \notin {"captured", "hard_reset"})
          => (pc'[j] = "restart_stream" /\ capture_lock' = j)
      ]_vars

\* C8: an exception that leaves capture_job under _safe_capture_job leads
\* to shutdown: the capture lock is released when the except clause runs,
\* and from there the shutdown flag gets set and the process exits.
C8_CrashLeadsToExit ==
    /\ [](pc["sched"] \in {"crashed", "shutdown"} => capture_lock # "sched")
    /\ [](exited /\ pc["sched"] \in {"shutdown", "sd_exit"} => shutdown_flag)
    /\ (pc["sched"] = "crashed") ~> (exited /\ shutdown_flag)

(***************************************************************************)
(* Properties of the bracketing search (SearchSpec)                        *)
(***************************************************************************)
\* the brightness of a scene that yields one value at index i
Val(i) == CHOOSE b \in scene[i] : TRUE

\* the scene is a brightness function, non-decreasing in the shutter index
MonotoneScene ==
    /\ \A i \in Idx : Cardinality(scene[i]) = 1
    /\ \A i, j \in Idx : i <= j => Val(i) <= Val(j)

Ended == spc \notin {"idle", "loop", "raised"}

\* C9: on a brightness function that is non-decreasing in the shutter index
\* and has an index in the band, the search started at any index of the
\* table never stops on the range check, a revisit or the attempt limit: it
\* returns (unless the camera raises) the frame of an index in the band,
\* after at most len(table) captures.
C9_Convergence ==
    (MonotoneScene /\ (\E i \in Idx : InBand(Val(i))) /\ spc # "idle"
       /\ start_idx \in Idx)
    => /\ spc = "loop" =>
            /\ attempt < TableLen
            /\ shutter_idx \in Idx
            /\ shutter_idx \notin DOMAIN exp_results
       /\ (Ended /\ spc # "failed") =>
            /\ spc = "returned"
            /\ result # <<>>
            /\ InBand(Val(result[1]))
            /\ attempt <= TableLen

\* the longest search: from one end of the table to the in-band index at
\* the other end
C9_Witness ==
    /\ MonotoneScene
    /\ spc = "returned"
    /\ attempt = TableLen

\* C10: when the search has stepped to an index that is already in
\* exp_results it stops without another capture, and the frame it returns
\* is the one of a logged index whose brightness is nearest to the target.
C10_RevisitStops ==
    [][(spc = "loop" /\ shutter_idx \in DOMAIN exp_results)
       => /\ spc' \in {"stopped_revisit", "stopped_attempts"}
          /\ UNCHANGED <<exp_results, order, attempt>>
          /\ result' # <<>>
          /\ result'[1] \in DOMAIN exp_results
          /\ \A k \in DOMAIN exp_results :
                Dist(exp_results[result'[1]]) <= Dist(exp_results[k])
      ]_vars

\* a search stopped by a revisit returned a frame that is neither the
\* newest nor the oldest of the log
C10_Witness ==
    /\ spc = "stopped_revisit"
    /\ Len(order) >= 3
    /\ result[1] # order[Len(order)]
    /\ result[1] # order[1]

\* the loop has ended without an in-band frame: range check, revisit or
\* attempts used up
Stopped == {"stopped_range", "stopped_revisit", "stopped_attempts"}

\* C11: when the loop ends without an in-band attempt and exp_results is
\* not empty, the frame returned is the one of a logged index whose
\* distance to the middle of the band is minimal over the log, and that
\* index is stored, in memory and in .capture_info.
C11_FallbackSelection ==
    [][(spc = "loop" /\ spc' \in Stopped /\ order # <<>>)
       => /\ result' # <<>>
          /\ result'[1] \in DOMAIN exp_results
          /\ \A k \in DOMAIN exp_results :
                Dist(exp_results[result'[1]]) <= Dist(exp_results[k])
          /\ last_known_exposure_index' = result'[1]
          /\ capture_info' = WithIndex(capture_info, result'[1])
      ]_vars

\* the attempts ran out after a frame was logged, and the index stored is
\* not the one the search started from
C11_Witness ==
    /\ spc = "stopped_attempts"
    /\ result # <<>>
    /\ capture_info = FileWith(result[1])
    /\ result[1] # start_idx

\* C12: when exp_results is empty at the end of the loop the search
\* returns (None, {}) through the fallback's guard, not through the except
\* clause, and writes neither last_known_exposure_index nor .capture_info.
C12_NoFrameGuard ==
    [][(spc = "loop" /\ spc' \in Stopped /\ order = <<>>)
       => /\ result' = <<>>
          /\ UNCHANGED expVars
      ]_vars

\* every attempt of a search yielded an empty buffer
C12_Witness ==
    /\ spc = "stopped_attempts"
    /\ order = <<>>
    /\ attempt = max_attempts
    /\ result = <<>>

\* C13: after a search has returned the frame of index i (in band or as
\* the fallback), the capture_idx field of .capture_info is i; a camera
\* object built afterwards reads i and its next search starts at i.
C13_RoundTrip ==
    /\ []((Ended /\ result # <<>>) =>
            /\ FieldName \in DOMAIN capture_info
            /\ capture_info[FieldName] = result[1])
    /\ [][(Ended /\ result # <<>> /\ spc' = "idle")
          => last_known_exposure_index' = result[1]]_vars
    /\ [][(spc = "idle" /\ spc' = "loop")
          => shutter_idx' = last_known_exposure_index]_vars

C13_Witness ==
    /\ spc = "loop"
    /\ attempt = 0
    /\ result # <<>>
    /\ shutter_idx = result[1]
    /\ shutter_idx # ReadIndex(NoFields)

\* C14: the index that seeds a search is a valid index of the shutter
\* table: when the loop is entered, before the first capture attempt,
\* shutter_idx is in [0, TableLen) whatever integer the file held.
C14_SeedValid ==
    (spc = "loop" /\ attempt = 0) => shutter_idx \in Idx

\* C15: pause_capture called a second time, with no resume_capture in
\* between, keeps the value of streaming_was_active the first call left:
\* a pause that had found the stream running is still remembered.
C15_PauseIdempotent ==
    [][(StartFocusAid /\ ~capture_active /\ streaming_was_active)
       => streaming_was_active']_vars

\* C16: resume_capture with no pause_capture before it (the active flag
\* is set) only sets the active flag: the handler returns at once, without
\* waiting, the camera and the stream are untouched, no stream is started.
C16_ResumeNoPause ==
    [][(StopFocusAid /\ capture_active)
       => /\ capture_active'
          /\ pc'[Web] = "idle"
          /\ UNCHANGED <<camVars, streaming_was_active, joining>>]_vars

C16_Witness ==
    /\ capture_active
    /\ pc[Web] = "idle"
    /\ ~focus_aid_running
    /\ ~streaming_was_active
    /\ running
    /\ wk[streamThread] = "loop"
    /\ deviceStatus = "Idle"

\* C17: when streamStop returns after its join, no streaming worker is
\* alive and the camera is stopped.
C17_StopJoins ==
    [][\A t \in Threads :
         StreamStopJoin(t) => /\ \A w \in Workers : wk'[w] = "dead"
                              /\ ~started']_vars

\* a job that took a frame and ran its post-processing ends: streamStart
\* and the release of the capture lock
JobEndsWithFrame(j) == pc[j] = "restart_stream" /\ frame[j] /\ pc'[j] = "idle"

C19_NoFrameJob ==
    /\ [][\A j \in Jobs :
            (pc[j] = "captured" /\ ~frame[j] /\ pc'[j] # "captured")
            => /\ deviceStatus' = "Error: Capture Failed"
               /\ pc'[j] = "restart_stream"
               /\ UNCHANGED <<shot_counter, camVars, exited>>]_vars
    /\ [](\A j \in Jobs :
            pc[j] \in {"hard_reset", "hr_reinit", "hr_shutdown", "hr_sd_exit"}
            => frame[j])
    /\ [][\A j \in Jobs :
            (pc[j] = "restart_stream" /\ ~frame[j] /\ pc'[j] # "restart_stream")
            => /\ pc'[j] = "idle"
               /\ running \/ wk'[streamThread] = "new"
               /\ UNCHANGED shot_counter]_vars

C19_Witness ==
    \E j \in Jobs :
        /\ pc[j] = "restart_stream"
        /\ ~frame[j]
        /\ deviceStatus = "Error: Capture Failed"
        /\ capture_lock = j

\* C20: a capture_job call that waits for the capture lock gets it in the
\* end: under fair scheduling the job that holds the lock finishes its body
\* and releases the lock (or the process exits).
C20_WaiterGetsLock ==
    \A a, b \in Jobs :
        (pc[a] = "acquire" /\ capture_lock = b) ~> (capture_lock # b \/ exited)

\* the fallback has just run on a log that is not empty
FallbackStep == spc = "loop" /\ spc' \in Stopped /\ order # <<>>

\* the place of a logged index in the order of the attempts
PlaceOf(i) == CHOOSE n \in 1 .. Len(order) : order[n] = i

\* the logged indices as far from the middle of the band as index i
TiedWith(i) ==
    {k \in DOMAIN exp_results : Dist(exp_results[k]) = Dist(exp_results[i])}

\* C21: among logged indices at the same distance from the middle of the
\* band the fallback returns the smallest index.
C21_TieLowestIndex ==
    [][FallbackStep => \A k \in TiedWith(result'[1]) : result'[1] <= k]_vars

\* C22: among logged indices at the same distance from the middle of the
\* band the fallback returns the one attempted first in this search.
C22_TieFirstAttempted ==
    [][FallbackStep
       => \A k \in TiedWith(result'[1]) :
             PlaceOf(result'[1]) <= PlaceOf(k)]_vars

C22_Witness ==
    /\ spc \in Stopped
    /\ result # <<>>
    /\ \E k \in TiedWith(result[1]) :
          k < result[1] /\ PlaceOf(result[1]) < PlaceOf(k)

\* C23: with no capture_idx field in .capture_info the search starts at
\* the mid-table index 8.
C23_DefaultSeed ==
    (spc = "loop" /\ attempt = 0 /\ FieldName \notin DOMAIN capture_info)
    => shutter_idx = MidIdx

\* C24: a search never makes more than max_attempts = 30 capture attempts,
\* every pass of its loop that does not end it uses up one attempt, and it
\* ends, whatever the brightness of the frames and whichever of them are
\* empty.
C24_SearchTerminates ==
    /\ [](attempt <= max_attempts)
    /\ [][(spc = "loop" /\ spc' = "loop") => attempt' = attempt + 1]_vars
    /\ (spc = "loop") ~> Ended

C24_Witness ==
    /\ spc = "stopped_attempts"
    /\ attempt = max_attempts
    /\ order # <<>>
    /\ Len(order) < attempt

\* C25: an attempt at an index whose capture yields an empty buffer uses
\* up one attempt and changes nothing else: the log and the index stay as
\* they are, so the same index, still not in the log, is tried again.
C25_EmptyFrameSkipped ==
    [][(CanCapture /\ scene[shutter_idx] = {} /\ spc' = "loop")
       => /\ attempt' = attempt + 1
          /\ shutter_idx' = shutter_idx
          /\ shutter_idx' \notin DOMAIN exp_results'
          /\ UNCHANGED <<exp_results, order, expVars, result>>]_vars

C25_Witness ==
    /\ CanCapture
    /\ scene[shutter_idx] = {}
    /\ attempt = 2
    /\ order = <<>>
    /\ shutter_idx = start_idx

PauseReturns ==
    \/ StartFocusAid /\ pc'[Web] = "idle"
    \/ pc[Web] = "ss_join" /\ pc'[Web] = "pause_done"

\* C28: when pause_capture returns the active flag is cleared and no
\* streaming worker is in its streaming loop.
C28_PauseStopsStreaming ==
    [][PauseReturns
       => /\ ~capture_active'
          /\ \A w \in Workers : wk'[w] # "loop"]_vars

\* C29: a resume_capture that finds streaming_was_active set calls
\* streamStart with the camera stopped (the wait is over, or the force-stop
\* was made) and clears streaming_was_active, with the active flag still
\* cleared; setting the active flag is its last step; and it always gets
\* there, unless the process exits first.
C29_ResumeOrder ==
    /\ [][(pc[Web] = "resume_wait" /\ pc'[Web] # "resume_wait")
          => /\ pc'[Web] = "resume_set"
             /\ ~started'
             /\ running \/ wk'[streamThread] = "new"
             /\ ~streaming_was_active'
             /\ UNCHANGED capture_active]_vars
    /\ [](pc[Web] = "resume_set" => ~streaming_was_active)
    /\ [][(pc[Web] = "resume_set" /\ pc'[Web] # "resume_set")
          => /\ pc'[Web] = "idle"
             /\ capture_active'
             /\ ~streaming_was_active']_vars
    /\ (pc[Web] = "resume_wait")
          ~> (exited \/ (pc[Web] = "idle" /\ capture_active
                           /\ ~streaming_was_active))

C29_Witness ==
    /\ pc[Web] = "resume_set"
    /\ ~capture_active
    /\ ~streaming_was_active
    /\ ~started
    /\ wk[streamThread] = "new"

\* the place of a step in the fixed order
RankOf(step) == CHOOSE n \in 1 .. Len(PostSteps) : PostSteps[n] = step

\* C30: the steps of a job that took a frame run in the fixed order; each
\* step is given the buffer the step before it returned (the first one the
\* frame takePicture returned); a job that gets through has run annotate
\* and overlay.
C30_PipelineOrder ==
    /\ \A m, n \in 1 .. Len(post_log) :
          m < n => RankOf(post_log[m].step) < RankOf(post_log[n].step)
    /\ \A n \in 1 .. Len(post_log) :
          post_log[n].inp = IF n = 1 THEN <<>> ELSE post_log[n - 1].out
    /\ post_stage = "done"
          => \A step \in {"annotate", "overlay"} :
                \E n \in 1 .. Len(post_log) : post_log[n].step = step

\* a step is in the log of the steps run
HasRun(step) == \E n \in 1 .. Len(post_log) : post_log[n].step = step

\* C31: the image is uploaded only after the test of archiveImages has been
\* made: once upload has run, post-processing is past the archive step.
C31_UploadAfterArchiveDecision ==
    HasRun("upload") => post_stage = "done"

\* C32: at most one streaming worker thread is alive at any time.
C32_SingleWorker ==
    Cardinality({w \in Workers : wk[w] # "dead"}) <= 1

\* C33: while the running flag is true a streaming worker thread is alive.
C33_RunningHasWorker ==
    running => \E w \in Workers : wk[w] # "dead"

\* C34: while capture is paused (the active flag is cleared) no capture job
\* issues a streamStart that starts a streaming worker.
C34_NoStreamStartWhilePaused ==
    [][\A j \in Jobs :
         (JobRestartStream(j) /\ wk' # wk) => capture_active]_vars

\* C35: the capture lock is never leaked: it is held only by a job that is
\* inside the body of capture_job, so every way out of the body (paused
\* no-op, unknown day period, no frame, success, exception) has released it.
C35_LockNotLeaked ==
    /\ capture_lock \in Jobs \cup {None}
    /\ \A j \in Jobs : capture_lock = j => InBody(j)

\* a job has left the body by an exception and the lock is free
C35_Witness ==
    pc["sched"] = "crashed" /\ capture_lock = None

\* a thread is inside the shutdown sequence: past the acquire of
\* shutdown_lock, stopping the stream or about to disconnect and exit
InShutdown(t) ==
    \/ pc[t] \in {"sd_exit", "hr_sd_exit"}
    \/ pc[t] = "ss_join" /\ ret[t] \in {"sd_exit", "hr_sd_exit"}

\* C36: the shutdown sequence runs at most once: the shutdown flag and lock
\* are set by one step, taken with the lock free, and never change again; at
\* most one thread is in the sequence; a call of shutdown made while the lock
\* is held returns and changes nothing else.
C36_ShutdownOnce ==
    /\ [](\A a, b \in Threads : InShutdown(a) /\ InShutdown(b) => a = b)
    /\ [][/\ (shutdown_flag' # shutdown_flag \/ shutdown_lock' # shutdown_lock)
               => ~shutdown_lock /\ ~shutdown_flag
                  /\ shutdown_lock' /\ shutdown_flag'
          /\ \A t \in Threads :
               (/\ pc[t] \in {"shutdown", "hr_shutdown"}
                /\ pc'[t] # pc[t]
                /\ shutdown_lock)
               => /\ ~InShutdown(t)'
                  /\ UNCHANGED <<appVars, ret, joining, day_period, frame,
                                 camVars, focusVars, expVars>>]_vars

\* a second caller is about to call shutdown while the first is inside the
\* sequence, waiting for the streaming worker
C36_Witness ==
    \E a, b \in Threads :
        /\ InShutdown(a)
        /\ pc[b] \in {"shutdown", "hr_shutdown"}
        /\ shutdown_lock

\* C37: a capture for the day period "day" leaves the exposure state as it
\* is: no step of its takePicture changes lastKnownIndex or the persisted
\* capture_idx, whether it returns a frame or not.
C37_DayKeepsExposureState ==
    [][\A j \in Jobs :
         (/\ day_period[j] = "day"
          /\ pc[j] \in {"take_picture", "tp_except", "tp_capture"}
          /\ pc'[j] # pc[j])
         => UNCHANGED expVars]_vars

\* a day capture has returned a frame
C37_Witness ==
    \E j \in Jobs :
        day_period[j] = "day" /\ pc[j] = "captured" /\ frame[j]

\* the indices logged in exp_results by the search so far
LoggedSet == {order[n] : n \in 1 .. Len(order)}

\* C38: within one search the logged indices, once there are any, form a
\* contiguous range (one index only has no logged index just below it) that
\* contains the start index, and each index is logged
\* at most once; when the search stops on a revisit, the revisited index is
\* the one logged immediately before the most recent logged attempt.
C38_LoggedRange ==
    /\ DOMAIN exp_results = LoggedSet
    /\ \A m, n \in 1 .. Len(order) : order[m] = order[n] => m = n
    /\ order # <<>> =>
         /\ start_idx \in LoggedSet
         /\ Cardinality({a \in LoggedSet : a - 1 \notin LoggedSet}) = 1
    /\ spc = "stopped_revisit" =>
         /\ Len(order) >= 2
         /\ shutter_idx = order[Len(order) - 1]

\* a search has stopped on a revisit after three logged frames
C38_Witness ==
    spc = "stopped_revisit" /\ Len(order) >= 3

\* C39: every index a search persists is a valid table index captured in
\* that search.  lastKnownIndex and the capture_idx field change only in the
\* step in which a search returns a frame, to the index of that frame, an
\* index of the table that the search has logged; every search that returns
\* a frame stores its index; so a valid index stays valid, and after any
\* sequence of searches lastKnownIndex is the index of the frame returned by
\* the last search that returned one.
C39_PersistedIndexValid ==
    [][/\ (last_known_exposure_index' # last_known_exposure_index
            \/ capture_info' # capture_info)
          => /\ spc = "loop" /\ spc' \notin {"loop", "idle"}
             /\ result' # <<>>
             /\ last_known_exposure_index' = result'[1]
             /\ ReadIndex(capture_info') = result'[1]
             /\ result'[1] \in Idx
             /\ result'[1] \in LoggedSet'
       /\ (spc = "loop" /\ spc' # "loop" /\ result' # <<>>)
          => last_known_exposure_index' = result'[1]
       /\ last_known_exposure_index \in Idx
          => last_known_exposure_index' \in Idx]_vars

\* a search has ended in the fallback and has stored an index other than
\* the one it started from
C39_Witness ==
    /\ spc \in {"stopped_revisit", "stopped_range", "stopped_attempts"}
    /\ result # <<>>
    /\ start_idx \in Idx
    /\ last_known_exposure_index = result[1]
    /\ result[1] # start_idx

\* C40: the published device status is not left at "Capturing Image" when no
\* capture job holds the capture lock.
C40_StatusNotStale ==
    capture_lock = None => deviceStatus # "Capturing Image"

====
